---- MODULE Spec2Model ----
(***************************************************************************)
(* A model of the diana_srv origin server: the byte-level request parsers  *)
(* of utils/readers.rs and backend/server.rs, the resource cache, and the  *)
(* accept loop with its connection handler.                                *)
(*                                                                         *)
(* Byte sequences are sequences of integers 0..255.  Rust indices are      *)
(* 0-based; At and Slice translate them to TLA+'s 1-based sequences.       *)
(***************************************************************************)
EXTENDS Integers, Sequences, FiniteSets, TLC

(* ------------------------------------------------------------------ *)
(* Bounds of the model.                                                *)
(* ------------------------------------------------------------------ *)

\* Number of clients that connect during a run.
MaxConn == 2

\* Number of times the environment changes a file of the resource directory.
MaxFsChanges == 1

\* Lengths of the buffers and patterns find_in_buffer is called on.
MaxBufferLen == 3
MaxPatternLen == 2

\* Length of the short buffers extract_number is called on.
MaxNumberLen == 3

\* Length of the request prefixes read_request_type and read_resource are
\* called on.
MaxPrefixLen == 6

\* Length of the bodies format_message is called on.
MaxBodyLen == 12

(* ------------------------------------------------------------------ *)
(* Constants of the program.                                           *)
(* ------------------------------------------------------------------ *)

NEWLINE == 10
CR == 13
SPACE == 32

\* "Content-Length: "
CONTENT_LENGTH_FIELD ==
    <<67, 111, 110, 116, 101, 110, 116, 45, 76, 101, 110, 103, 116, 104, 58, 32>>

\* "GET"
GET_REQUEST == <<71, 69, 84>>

\* "POST"
POST_REQUEST == <<80, 79, 83, 84>>

\* "site_not_found.html"
SITE_NOT_FOUND ==
    <<115, 105, 116, 101, 95, 110, 111, 116, 95, 102, 111, 117, 110, 100, 46,
      104, 116, 109, 108>>

\* "resource/html/"
RESOURCE_HTML_DIR ==
    <<114, 101, 115, 111, 117, 114, 99, 101, 47, 104, 116, 109, 108, 47>>

\* "Hello World", the value Server::new stores under SITE_NOT_FOUND.
HELLO_WORLD == <<72, 101, 108, 108, 111, 32, 87, 111, 114, 108, 100>>

\* Capacity of the read buffer and cap on the declared body length.
READ_CAPACITY == 8192
MAX_BODY_LENGTH == 8192

\* The rolling hash's base and modulus.
prime == 31
large_prime == 1000000009

\* usize::MAX (2^64 - 1), written as its representative modulo 2^64 in the
\* range of the model checker's integers: usize::MAX + 1 wraps to 0.
USIZE_MAX == -1

(* ------------------------------------------------------------------ *)
(* Helpers for Rust's 0-based indexing and Option values.              *)
(* ------------------------------------------------------------------ *)

At(s, i) == s[i + 1]

\* s[from..to]
Slice(s, from, to) == SubSeq(s, from + 1, to)

\* s[from..]
SliceFrom(s, from) == SubSeq(s, from + 1, Len(s))

Max2(a, b) == IF a >= b THEN a ELSE b
Min2(a, b) == IF a <= b THEN a ELSE b

\* Option<T>: None is <<>>, Some(x) is <<x>>.
None == <<>>
Some(x) == <<x>>
IsSome(o) == Len(o) = 1
Unwrap(o) == o[1]

(* ------------------------------------------------------------------ *)
(* i64 arithmetic that stays within the model checker's integers.      *)
(* ------------------------------------------------------------------ *)

\* (2 * x) % large_prime, and x * 2^15 % large_prime by fifteen doublings.
Dbl(x) == (2 * x) % large_prime
Dbl3(x) == Dbl(Dbl(Dbl(x)))
Dbl15(x) == Dbl3(Dbl3(Dbl3(Dbl3(Dbl3(x)))))

\* (a * b) % large_prime for 0 <= a, b < 2^30, from the four products of
\* the 15-bit halves of a and b: the i64 product of the source does not
\* overflow for these operands, the model checker's 32-bit product would.
MulModOf(a, b) ==
    LET a1 == a \div 32768
        a0 == a % 32768
        b1 == b \div 32768
        b0 == b % 32768
        hi  == Dbl15(Dbl15((a1 * b1) % large_prime))
        mid == Dbl15((a1 * b0 + a0 * b1) % large_prime)
        lo  == (a0 * b0) % large_prime
    IN  (((hi + mid) % large_prime) + lo) % large_prime

\* Operator arguments are evaluated where they are used; binding them in a
\* set evaluates them first, once.
MulMod(a, b) == CHOOSE r \in {MulModOf(av, bv) : av \in {a}, bv \in {b}} : TRUE

\* Non-negative integers beyond 2^31 are little-endian sequences of limbs
\* in base 10^4.
LIMB == 100 * 100

RECURSIVE ToLimbs(_)
ToLimbs(n) == IF n = 0 THEN <<>> ELSE <<n % LIMB>> \o ToLimbs(n \div LIMB)

LimbAt(x, i) == IF i <= Len(x) THEN x[i] ELSE 0

RECURSIVE Normalize(_, _, _)
Normalize(x, i, carry) ==
    IF i > Len(x)
    THEN ToLimbs(carry)
    ELSE LET v == x[i] + carry
         IN  <<v % LIMB>> \o Normalize(x, i + 1, v \div LIMB)

RECURSIVE StripZeros(_)
StripZeros(x) ==
    IF x # <<>> /\ x[Len(x)] = 0 THEN StripZeros(SubSeq(x, 1, Len(x) - 1)) ELSE x

BigAdd(x, y) ==
    StripZeros(Normalize([i \in 1..Max2(Len(x), Len(y)) |-> LimbAt(x, i) + LimbAt(y, i)],
                         1, 0))

RECURSIVE ConvSum(_, _, _, _)
ConvSum(x, y, k, i) ==
    IF i > k THEN 0
    ELSE LimbAt(x, i) * LimbAt(y, k + 1 - i) + ConvSum(x, y, k, i + 1)

\* Schoolbook product; x and y have at most four limbs each here, so every
\* column sum stays below 2^31.
BigMul(x, y) ==
    IF x = <<>> \/ y = <<>> THEN <<>>
    ELSE StripZeros(Normalize([k \in 1..(Len(x) + Len(y) - 1) |-> ConvSum(x, y, k, 1)],
                              1, 0))

RECURSIVE BigGreaterFrom(_, _, _)
BigGreaterFrom(x, y, i) ==
    IF i = 0 THEN FALSE
    ELSE IF x[i] # y[i] THEN x[i] > y[i]
    ELSE BigGreaterFrom(x, y, i - 1)

\* x > y for normalized x, y
BigGreater(x, y) ==
    IF Len(x) # Len(y) THEN Len(x) > Len(y) ELSE BigGreaterFrom(x, y, Len(x))

\* i64::MAX = 9223372036854775807
I64_MAX_LIMBS == <<5807, 5477, 368, 3372, 922>>

\* x modulo large_prime, for a limb sequence x (Horner's rule from the top).
RECURSIVE BigModFrom(_, _)
BigModFrom(x, i) ==
    IF i > Len(x) THEN 0
    ELSE (MulMod(BigModFrom(x, i + 1), LIMB) + x[i]) % large_prime

BigMod(x) == BigModFrom(x, 1)

\* 2^n modulo large_prime
RECURSIVE Pow2Mod(_)
Pow2Mod(n) == IF n = 0 THEN 1 ELSE (2 * Pow2Mod(n - 1)) % large_prime

\* The magnitude of i64::MIN = -9223372036854775808, and 2^64.
I64_MIN_LIMBS == <<5808, 5477, 368, 3372, 922>>
TWO64_LIMBS == <<1616, 955, 737, 6744, 1844>>

RECURSIVE Pow2(_)
Pow2(n) == IF n = 0 THEN 1 ELSE 2 * Pow2(n - 1)

\* x - y for normalized x >= y
RECURSIVE SubFrom(_, _, _, _)
SubFrom(x, y, i, borrow) ==
    IF i > Len(x) THEN <<>>
    ELSE LET v == x[i] - LimbAt(y, i) - borrow
         IN  IF v < 0 THEN <<v + LIMB>> \o SubFrom(x, y, i + 1, 1)
             ELSE <<v>> \o SubFrom(x, y, i + 1, 0)

BigSub(x, y) == StripZeros(SubFrom(x, y, 1, 0))

\* x modulo 2^64 for x < 2^64 * 2^(k + 1): 2^64 * 2^j is taken off where it
\* fits, for j from k down to 0.
RECURSIVE Wrap64From(_, _)
Wrap64From(x, k) ==
    IF k < 0 THEN x
    ELSE CHOOSE r \in {Wrap64From(IF BigGreater(m, xv) THEN xv ELSE BigSub(xv, m), k - 1) :
                           xv \in {x}, m \in {BigMul(TWO64_LIMBS, ToLimbs(Pow2(k)))}} :
             TRUE

\* x modulo 2^64 for any limb sequence x, by Horner's rule from the top
\* limb: a remainder times 10^4 plus a limb is below 2^64 * 2^14.
RECURSIVE BigWrap64From(_, _)
BigWrap64From(x, i) ==
    IF i > Len(x) THEN <<>>
    ELSE Wrap64From(StripZeros(<<x[i]>> \o BigWrap64From(x, i + 1)), 13)

BigWrap64(x) == BigWrap64From(x, 1)

\* An i64 beyond the model checker's integers: a sign and a magnitude.
I64(neg, mag) == [neg |-> neg /\ mag # <<>>, mag |-> mag]

\* The i64 whose two's complement bits are those of the u64 u < 2^64.
I64FromBits(u) ==
    IF BigGreater(u, I64_MAX_LIMBS) THEN I64(TRUE, BigSub(TWO64_LIMBS, u))
    ELSE I64(FALSE, u)

\* The value of a limb sequence below 2^31.
RECURSIVE LimbsToInt(_)
LimbsToInt(x) == IF x = <<>> THEN 0 ELSE x[1] + LIMB * LimbsToInt(Tail(x))

(* ------------------------------------------------------------------ *)
(* utils/readers.rs, mod buffers                                       *)
(* ------------------------------------------------------------------ *)

\* A call either returns a value or panics.
Ok(v) == [panic |-> FALSE, value |-> v]
Panic == [panic |-> TRUE, value |-> 0]

\* read_tcpstream's Ok branch: try_read_buf fills a Vec of capacity 8192
\* with the bytes that are available on the socket.
read_tcpstream(available) == Slice(available, 0, Min2(Len(available), READ_CAPACITY))

\* The least element of a non-empty set of integers.
MinOf(S) == CHOOSE i \in S : \A j \in S : i <= j

\* The bytes extract_number collects: all bytes before the first CR or LF.
num_bytes(buffer) ==
    LET stops == {i \in 1..Len(buffer) : buffer[i] = CR \/ buffer[i] = NEWLINE}
    IN  IF stops = {} THEN buffer ELSE SubSeq(buffer, 1, MinOf(stops) - 1)

\* The i-th value of the reversed iteration, x - 48, multiplied there by
\* magnitude = 10^(i - 1).
rev_digit(bytes, i) == bytes[Len(bytes) + 1 - i] - 48

\* The limbs of the sum over i of digits[i] * 10^(i - 1), digits[i] >= 0.
DigitLimbs(digits) ==
    LET DigAt(i) == IF i <= Len(digits) THEN digits[i] ELSE 0
    IN  StripZeros(Normalize([j \in 1..((Len(digits) + 3) \div 4) |->
                                 DigAt(4 * j - 3) + 10 * DigAt(4 * j - 2)
                                 + 100 * DigAt(4 * j - 1) + 1000 * DigAt(4 * j)],
                             1, 0))

\* The sum of the first n terms (x - 48) * magnitude is pos - neg: pos
\* from the terms with x >= 48 and neg from the others.
pos_sum(bytes, n) == DigitLimbs([i \in 1..n |-> Max2(rev_digit(bytes, i), 0)])
neg_sum(bytes, n) == DigitLimbs([i \in 1..n |-> Max2(0 - rev_digit(bytes, i), 0)])

\* Whether pos - neg lies outside i64.
OutsideI64(pos, neg) ==
    \/ BigGreater(pos, BigAdd(neg, I64_MAX_LIMBS))
    \/ BigGreater(neg, BigAdd(pos, I64_MIN_LIMBS))

\* Whether the i64 arithmetic of the reversed sum overflows: magnitude *= 10
\* at the 19th byte (10^19), a product (x - 48) * magnitude, or a partial
\* sum of .sum().
rev_sum_overflows(bytes) ==
    \/ Len(bytes) >= 19
    \/ \E i \in 1..Len(bytes) :
           \/ OutsideI64(DigitLimbs([k \in 1..i |-> IF k = i THEN Max2(rev_digit(bytes, i), 0)
                                                   ELSE 0]),
                         DigitLimbs([k \in 1..i |-> IF k = i
                                                   THEN Max2(0 - rev_digit(bytes, i), 0)
                                                   ELSE 0]))
           \/ OutsideI64(pos_sum(bytes, i), neg_sum(bytes, i))

\* The sum over the reversed bytes of (x - 48) * magnitude in wrapping i64
\* arithmetic: the sum modulo 2^64, read as two's complement.
rev_sum(bytes) ==
    CHOOSE r \in {I64FromBits(IF BigGreater(q, p) THEN BigSub(BigAdd(p, TWO64_LIMBS), q)
                              ELSE BigSub(p, q)) :
                     p \in {BigWrap64(pos_sum(bytes, Len(bytes)))},
                     q \in {BigWrap64(neg_sum(bytes, Len(bytes)))}} :
        TRUE

\* extract_number: with overflow checks an overflow panics, without them
\* the arithmetic wraps.
extract_number(buffer, checks) ==
    CHOOSE r \in {IF checks /\ rev_sum_overflows(bytes) THEN Panic ELSE Ok(rev_sum(bytes)) :
                     bytes \in {num_bytes(buffer)}} :
        TRUE

\* base^e % large_prime by squaring.
RECURSIVE PowMod(_, _)
PowMod(base, e) ==
    IF e = 0 THEN 1
    ELSE IF e % 2 = 1 THEN MulMod(PowMod(base, e - 1), base)
    ELSE PowMod(MulMod(base, base), e \div 2)

\* powers[0] = 1 and powers[idx] = powers[idx - 1] * prime % large_prime for
\* idx in 1..capacity-1, that is prime^idx % large_prime.
powers_table(capacity) == [i \in 1..capacity |-> PowMod(prime, i - 1)]

\* The sum modulo large_prime of terms[lo..hi] (1-based, inclusive).
RECURSIVE SumMod(_, _, _)
SumMod(terms, lo, hi) ==
    IF lo > hi THEN 0
    ELSE IF lo = hi THEN terms[lo] % large_prime
    ELSE (SumMod(terms, lo, (lo + hi) \div 2) + SumMod(terms, (lo + hi) \div 2 + 1, hi))
         % large_prime

\* buffer_hash_prefixes[0] = 0 and
\* buffer_hash_prefixes[idx + 1] =
\*     (buffer_hash_prefixes[idx] + buffer[idx] * powers[idx]) % large_prime,
\* that is the sum modulo large_prime of the first idx + 1 terms.
hash_prefixes(buffer, powers) ==
    CHOOSE r \in {[k \in 1..(Len(buffer) + 1) |-> SumMod(terms, 1, k - 1)] :
                     terms \in {[i \in 1..Len(buffer) |-> MulMod(powers[i], buffer[i])]}} :
        TRUE

\* The sum, not reduced, of terms[lo..hi], as limbs.
RECURSIVE BigSum(_, _, _)
BigSum(terms, lo, hi) ==
    IF lo > hi THEN <<>>
    ELSE IF lo = hi THEN ToLimbs(terms[lo])
    ELSE BigAdd(BigSum(terms, lo, (lo + hi) \div 2),
                BigSum(terms, (lo + hi) \div 2 + 1, hi))

\* hashed_pattern: the sum over idx of pattern[idx] * powers[idx] %
\* large_prime.  The sum itself is not reduced: it exceeds 2^31 and is kept
\* as limbs.
hash_pattern(pattern, powers) ==
    BigSum([i \in 1..Len(pattern) |-> MulMod(powers[i], pattern[i])], 1, Len(pattern))

\* The comparison of the search loop at idx: "panic", "match" or "differ".
\* The product hashed_pattern * powers[idx] is an i64: beyond i64::MAX it
\* panics with overflow checks and wraps without them.  The model covers
\* products below 2^64 (patterns of up to 16 bytes), whose wrapped value
\* v = product - 2^64 is negative, so that v % large_prime is zero or
\* negative and equals the non-negative window hash only when both are 0.
compare_at(prefixes, powers, hashed_pattern, pattern_sz, idx, checks) ==
    LET current_hash == (At(prefixes, idx + pattern_sz) + large_prime - At(prefixes, idx))
                        % large_prime
        product      == BigMul(hashed_pattern, ToLimbs(At(powers, idx)))
        product_mod  == MulMod(BigMod(hashed_pattern), At(powers, idx))
    IN  IF BigGreater(product, I64_MAX_LIMBS)
        THEN IF checks THEN "panic"
             ELSE IF current_hash = 0 /\ product_mod = Pow2Mod(64) THEN "match"
             ELSE "differ"
        ELSE IF current_hash = product_mod THEN "match" ELSE "differ"

\* The search loop over idx in 0..end-1: the first index whose comparison
\* does not differ decides the call.
search_result(cmp) ==
    LET hits == {idx \in DOMAIN cmp : cmp[idx] # "differ"}
    IN  IF hits = {} THEN Ok(USIZE_MAX)
        ELSE IF cmp[MinOf(hits)] = "panic" THEN Panic
        ELSE Ok(MinOf(hits))

search_loop(prefixes, powers, hashed_pattern, pattern_sz, end, checks) ==
    CHOOSE r \in {search_result(cmp) :
                     cmp \in {[idx \in 0..(end - 1) |->
                                  compare_at(prefixes, powers, hashed_pattern, pattern_sz,
                                             idx, checks)]}} :
        TRUE

\* The tables of find_in_buffer, each computed once, and then the loop.
find_with_powers(buffer, pattern, powers, checks) ==
    CHOOSE r \in {search_loop(prefixes, powers, hashed_pattern, Len(pattern),
                               Len(buffer) - Len(pattern) + 1, checks) :
                     prefixes \in {hash_prefixes(buffer, powers)},
                     hashed_pattern \in {hash_pattern(pattern, powers)}} :
        TRUE

\* find_in_buffer.  The loop bound buffer_sz - pattern_sz + 1 is computed in
\* usize: for a buffer shorter than the pattern it panics with overflow
\* checks; without them it wraps, to 0 when the buffer is one byte short (no
\* iteration, usize::MAX is returned) and to a huge bound otherwise, and then
\* the first iteration indexes buffer_hash_prefixes out of bounds and panics.
find_in_buffer(buffer, pattern, checks) ==
    LET pattern_sz == Len(pattern)
        buffer_sz  == Len(buffer)
        capacity   == Max2(pattern_sz, buffer_sz)
    IN  IF buffer_sz < pattern_sz
        THEN IF checks THEN Panic
             ELSE IF pattern_sz - buffer_sz = 1 THEN Ok(USIZE_MAX)
             ELSE Panic
        ELSE CHOOSE r \in {find_with_powers(buffer, pattern, powers, checks) :
                              powers \in {powers_table(capacity)}} :
                 TRUE

(* ------------------------------------------------------------------ *)
(* utils/readers.rs, mod files, over a directory dir: a function from  *)
(* paths to files [kind, content], kind "missing" or "file"; a path    *)
(* outside its domain does not exist.                                  *)
(* ------------------------------------------------------------------ *)

FileAt(dir, file_path) ==
    IF file_path \in DOMAIN dir THEN dir[file_path]
    ELSE [kind |-> "missing", content |-> <<>>]

check_if_file_exists(dir, file_path) == FileAt(dir, file_path).kind # "missing"

\* The file's bytes; the empty vector when opening or reading fails and
\* when the file holds no byte.
read_to_bytes(dir, file_path) ==
    IF FileAt(dir, file_path).kind = "file" THEN FileAt(dir, file_path).content ELSE <<>>

(* ------------------------------------------------------------------ *)
(* std::str::from_utf8: whether bytes[i..] is well-formed UTF-8.       *)
(* ------------------------------------------------------------------ *)

IsCont(bytes, i) == i <= Len(bytes) /\ bytes[i] >= 128 /\ bytes[i] <= 191

RECURSIVE utf8_from(_, _)
utf8_from(bytes, i) ==
    IF i > Len(bytes) THEN TRUE
    ELSE LET b == bytes[i]
         IN  IF b <= 127 THEN utf8_from(bytes, i + 1)
             ELSE IF b >= 194 /\ b <= 223
             THEN IsCont(bytes, i + 1) /\ utf8_from(bytes, i + 2)
             ELSE IF b >= 224 /\ b <= 239
             THEN /\ IsCont(bytes, i + 1) /\ IsCont(bytes, i + 2)
                  /\ (b = 224 => bytes[i + 1] >= 160)
                  /\ (b = 237 => bytes[i + 1] <= 159)
                  /\ utf8_from(bytes, i + 3)
             ELSE IF b >= 240 /\ b <= 244
             THEN /\ IsCont(bytes, i + 1) /\ IsCont(bytes, i + 2) /\ IsCont(bytes, i + 3)
                  /\ (b = 240 => bytes[i + 1] >= 144)
                  /\ (b = 244 => bytes[i + 1] <= 143)
                  /\ utf8_from(bytes, i + 4)
             ELSE FALSE

from_utf8_is_ok(bytes) == utf8_from(bytes, 1)

(* ------------------------------------------------------------------ *)
(* backend/server.rs: the parsers of a captured buffer.                *)
(* ------------------------------------------------------------------ *)

\* read_request_type; slicing buffer[0..3] or buffer[0..4] beyond the
\* buffer's end panics.
read_request_type(buffer) ==
    IF Len(buffer) < 3 THEN Panic
    ELSE IF Slice(buffer, 0, 3) = GET_REQUEST THEN Ok("Get")
    ELSE IF Len(buffer) < 4 THEN Panic
    ELSE IF Slice(buffer, 0, 4) = POST_REQUEST THEN Ok("Post")
    ELSE Ok("Invalid")

\* The bytes before the first SPACE of rest; empty when rest has no SPACE.
until_space(rest) ==
    LET spaces == {i \in 1..Len(rest) : rest[i] = SPACE}
    IN  IF spaces = {} THEN <<>> ELSE SubSeq(rest, 1, MinOf(spaces) - 1)

\* read_resource; request_offset + 1 is computed in usize, and for Invalid
\* (usize::MAX) it panics with overflow checks and wraps to 0 without.
read_resource(buffer, req_type, checks) ==
    LET request_offset == IF req_type = "Get" THEN 3
                          ELSE IF req_type = "Post" THEN 4
                          ELSE USIZE_MAX
    IN  IF request_offset = USIZE_MAX /\ checks THEN Panic
        ELSE IF request_offset + 1 > Len(buffer) THEN Panic
        ELSE Ok(until_space(SliceFrom(buffer, request_offset + 1)))

\* The slice read_request_body returns once the field is found at
\* content_field_idx.  buffer_sz - body_length as usize leaves the buffer
\* for a negative length and for a length above buffer_sz: the subtraction
\* panics with overflow checks, the slice's range check without.
body_slice(buffer, content_field_idx, checks) ==
    LET offset_start == Len(CONTENT_LENGTH_FIELD)
        buffer_sz    == Len(buffer)
    IN  CHOOSE r \in
            {IF body_length.panic THEN Panic
             ELSE IF /\ ~body_length.value.neg
                     /\ BigGreater(body_length.value.mag, ToLimbs(MAX_BODY_LENGTH))
                  THEN Ok(<<>>)
             ELSE IF \/ body_length.value.neg
                     \/ LimbsToInt(body_length.value.mag) > buffer_sz
                  THEN Panic
             ELSE Ok(SliceFrom(buffer, buffer_sz - LimbsToInt(body_length.value.mag))) :
                body_length \in {extract_number(SliceFrom(buffer,
                                                          content_field_idx + offset_start),
                                                checks)}} :
            TRUE

read_request_body(buffer, checks) ==
    CHOOSE r \in {IF found.panic THEN Panic
                  ELSE IF found.value = USIZE_MAX THEN Ok(<<>>)
                  ELSE body_slice(buffer, found.value, checks) :
                     found \in {find_in_buffer(buffer, CONTENT_LENGTH_FIELD,
                                               checks)}} :
        TRUE

\* The decimal digits of n, as the format! macro writes a usize.
RECURSIVE decimal(_)
decimal(n) == IF n < 10 THEN <<48 + n>> ELSE decimal(n \div 10) \o <<48 + (n % 10)>>

\* "HTTP/1.1 200 OK\r\nAccess-Control-Allow-Origin: *\r\nContent-Length: "
RESPONSE_HEAD ==
    <<72, 84, 84, 80, 47, 49, 46, 49, 32, 50, 48, 48, 32, 79, 75, 13, 10,
      65, 99, 99, 101, 115, 115, 45, 67, 111, 110, 116, 114, 111, 108, 45,
      65, 108, 108, 111, 119, 45, 79, 114, 105, 103, 105, 110, 58, 32, 42, 13, 10,
      67, 111, 110, 116, 101, 110, 116, 45, 76, 101, 110, 103, 116, 104, 58, 32>>

\* A response whose head is not closed by the empty line.
format_message_bare(site_content) ==
    RESPONSE_HEAD \o decimal(Len(site_content)) \o site_content

format_message(site_content) ==
    RESPONSE_HEAD \o decimal(Len(site_content)) \o <<CR, NEWLINE, CR, NEWLINE>>
        \o site_content

(* ------------------------------------------------------------------ *)
(* backend/server.rs: the resource cache.  cached_sites is a function  *)
(* from the keys it holds to their content.                            *)
(* ------------------------------------------------------------------ *)

\* A cache that keeps nothing but the entry inserted.
insert_alone(cached, key, value) == [k \in {key} |-> value]

\* HashMap::insert
insert(cached, key, value) ==
    [k \in DOMAIN cached \cup {key} |-> IF k = key THEN value ELSE cached[k]]

\* The result of a fetch: whether it panicked, the cache afterwards, the
\* content returned, and the path read_to_bytes was called with, if any.
FetchResult(cached, content, read) ==
    [panic |-> FALSE, cached_sites |-> cached, content |-> content, read |-> read]

FetchPanic(cached, read) ==
    [panic |-> TRUE, cached_sites |-> cached, content |-> <<>>, read |-> read]

\* &cached_sites[SITE_NOT_FOUND]: indexing a HashMap by a missing key panics.
not_found_site(cached, read) ==
    IF SITE_NOT_FOUND \in DOMAIN cached
    THEN FetchResult(cached, cached[SITE_NOT_FOUND], read)
    ELSE FetchPanic(cached, read)

\* A fetch that returns what it loaded without inserting it.
fetch_resource_no_insert(cached, dir, resource_path) ==
    LET path_on_server == RESOURCE_HTML_DIR \o resource_path
        site == read_to_bytes(dir, path_on_server)
    IN  IF resource_path = <<>> THEN not_found_site(cached, None)
        ELSE IF resource_path \in DOMAIN cached
        THEN FetchResult(cached, cached[resource_path], None)
        ELSE IF ~from_utf8_is_ok(path_on_server) THEN FetchPanic(cached, None)
        ELSE IF ~check_if_file_exists(dir, path_on_server) THEN not_found_site(cached, None)
        ELSE IF site = <<>> THEN not_found_site(cached, Some(path_on_server))
        ELSE FetchResult(cached, site, Some(path_on_server))

\* A fetch that goes to the file without asking the cache first.
fetch_resource_reload(cached, dir, resource_path) ==
    LET path_on_server == RESOURCE_HTML_DIR \o resource_path
        site == read_to_bytes(dir, path_on_server)
    IN  IF resource_path = <<>> THEN not_found_site(cached, None)
        ELSE IF ~from_utf8_is_ok(path_on_server) THEN FetchPanic(cached, None)
        ELSE IF ~check_if_file_exists(dir, path_on_server) THEN not_found_site(cached, None)
        ELSE IF site = <<>> THEN not_found_site(cached, Some(path_on_server))
        ELSE FetchResult(insert(cached, resource_path, site), site, Some(path_on_server))

\* A fetch that caches and returns a file of no bytes like any other.
fetch_resource_keep_empty(cached, dir, resource_path) ==
    LET path_on_server == RESOURCE_HTML_DIR \o resource_path
        site == read_to_bytes(dir, path_on_server)
    IN  IF resource_path = <<>> THEN not_found_site(cached, None)
        ELSE IF resource_path \in DOMAIN cached
        THEN FetchResult(cached, cached[resource_path], None)
        ELSE IF ~from_utf8_is_ok(path_on_server) THEN FetchPanic(cached, None)
        ELSE IF ~check_if_file_exists(dir, path_on_server) THEN not_found_site(cached, None)
        ELSE FetchResult(insert(cached, resource_path, site), site, Some(path_on_server))

\* A fetch that stores the sentinel content under a key whose file is
\* missing or holds no bytes.
fetch_resource_cache_miss(cached, dir, resource_path) ==
    LET path_on_server == RESOURCE_HTML_DIR \o resource_path
        site == read_to_bytes(dir, path_on_server)
        miss(read) == IF SITE_NOT_FOUND \in DOMAIN cached
                      THEN FetchResult(insert(cached, resource_path, cached[SITE_NOT_FOUND]),
                                       cached[SITE_NOT_FOUND], read)
                      ELSE FetchPanic(cached, read)
    IN  IF resource_path = <<>> THEN not_found_site(cached, None)
        ELSE IF resource_path \in DOMAIN cached
        THEN FetchResult(cached, cached[resource_path], None)
        ELSE IF ~from_utf8_is_ok(path_on_server) THEN FetchPanic(cached, None)
        ELSE IF ~check_if_file_exists(dir, path_on_server) THEN miss(None)
        ELSE IF site = <<>> THEN miss(Some(path_on_server))
        ELSE FetchResult(insert(cached, resource_path, site), site, Some(path_on_server))

\* fetch_resource: the sentinel for an empty key; a cached key's content;
\* otherwise the file at resource_html_dir + key, whose path must be UTF-8
\* (unwrap), cached and returned when it exists and holds bytes, and the
\* sentinel when it does not.
fetch_resource(cached, dir, resource_path) ==
    LET path_on_server == RESOURCE_HTML_DIR \o resource_path
        site == read_to_bytes(dir, path_on_server)
    IN  IF resource_path = <<>> THEN not_found_site(cached, None)
        ELSE IF resource_path \in DOMAIN cached
        THEN FetchResult(cached, cached[resource_path], None)
        ELSE IF ~from_utf8_is_ok(path_on_server) THEN FetchPanic(cached, None)
        ELSE IF ~check_if_file_exists(dir, path_on_server) THEN not_found_site(cached, None)
        ELSE IF site = <<>> THEN not_found_site(cached, Some(path_on_server))
        ELSE FetchResult(insert(cached, resource_path, site), site, Some(path_on_server))

(* ------------------------------------------------------------------ *)
(* The environment: clients, the requests they send, the files of the  *)
(* resource directory.                                                 *)
(* ------------------------------------------------------------------ *)

Conns == 1..MaxConn

\* "GET /a HTTP/1.1\r\nContent-Length: 1\r\n\r\nx"
REQ_GET_A ==
    <<71, 69, 84, 32, 47, 97, 32, 72, 84, 84, 80, 47, 49, 46, 49, 13, 10,
      67, 111, 110, 116, 101, 110, 116, 45, 76, 101, 110, 103, 116, 104, 58, 32,
      49, 13, 10, 13, 10, 120>>

\* "POST /b HTTP/1.1\r\nContent-Length: 2\r\n\r\nhi"
REQ_POST_B ==
    <<80, 79, 83, 84, 32, 47, 98, 32, 72, 84, 84, 80, 47, 49, 46, 49, 13, 10,
      67, 111, 110, 116, 101, 110, 116, 45, 76, 101, 110, 103, 116, 104, 58, 32,
      50, 13, 10, 13, 10, 104, 105>>

\* "GET /a HTTP/1.1\r\n\r\n": no Content-Length field
REQ_PLAIN_GET ==
    <<71, 69, 84, 32, 47, 97, 32, 72, 84, 84, 80, 47, 49, 46, 49, 13, 10, 13, 10>>

\* "PUT /a HTTP/1.1\r\nContent-Length: 1\r\n\r\nx"
REQ_PUT ==
    <<80, 85, 84, 32, 47, 97, 32, 72, 84, 84, 80, 47, 49, 46, 49, 13, 10,
      67, 111, 110, 116, 101, 110, 116, 45, 76, 101, 110, 103, 116, 104, 58, 32,
      49, 13, 10, 13, 10, 120>>

\* "GET  HTTP/1.1\r\nContent-Length: 1\r\n\r\nx": no path between the spaces
REQ_NO_RESOURCE ==
    <<71, 69, 84, 32, 32, 72, 84, 84, 80, 47, 49, 46, 49, 13, 10,
      67, 111, 110, 116, 101, 110, 116, 45, 76, 101, 110, 103, 116, 104, 58, 32,
      49, 13, 10, 13, 10, 120>>

\* "GET /\xff HTTP/1.1\r\nContent-Length: 1\r\n\r\nx": a path that is not UTF-8
REQ_BAD_UTF8 ==
    <<71, 69, 84, 32, 47, 255, 32, 72, 84, 84, 80, 47, 49, 46, 49, 13, 10,
      67, 111, 110, 116, 101, 110, 116, 45, 76, 101, 110, 103, 116, 104, 58, 32,
      49, 13, 10, 13, 10, 120>>

\* "GET /a HTTP/1.1\r\nContent-Length: 18446744073709551617\r\n\r\nx": the
\* declared length is 2^64 + 1.
REQ_WRAPPED ==
    <<71, 69, 84, 32, 47, 97, 32, 72, 84, 84, 80, 47, 49, 46, 49, 13, 10,
      67, 111, 110, 116, 101, 110, 116, 45, 76, 101, 110, 103, 116, 104, 58, 32,
      49, 56, 52, 52, 54, 55, 52, 52, 48, 55, 51, 55, 48, 57, 53, 53, 49, 54, 49, 55,
      13, 10, 13, 10, 120>>

Requests ==
    {REQ_GET_A, REQ_POST_B, REQ_PLAIN_GET, REQ_PUT, REQ_NO_RESOURCE, REQ_BAD_UTF8,
     REQ_WRAPPED}

\* The buffers a handler can capture: a request, or nothing at end of stream.
Buffers == {read_tcpstream(sent) : sent \in Requests \cup {<<>>}}

\* read_request_body on each of these buffers and for each build, computed
\* once and looked up by the handlers.
BodyResults ==
    {<<buffer, checks, read_request_body(buffer, checks)>> :
        buffer \in Buffers, checks \in BOOLEAN}

read_request_body_of(buffer, checks) ==
    (CHOOSE r \in BodyResults : r[1] = buffer /\ r[2] = checks)[3]

\* "/a" and "/b", the keys of the requests above.  The environment keeps a
\* file for "/a"; the path of "/b" never exists.
KEY_A == <<47, 97>>
KEY_B == <<47, 98>>
PathOf(key) == RESOURCE_HTML_DIR \o key
Paths == {PathOf(KEY_A)}

\* No file, a file of no bytes, and two contents "<a>" and "<b>".
Files ==
    {[kind |-> "missing", content |-> <<>>],
     [kind |-> "file", content |-> <<>>],
     [kind |-> "file", content |-> <<60, 97, 62>>],
     [kind |-> "file", content |-> <<60, 98, 62>>]}

(* ------------------------------------------------------------------ *)
(* State.                                                              *)
(* ------------------------------------------------------------------ *)

VARIABLES
    overflow_checks,     \* the build: TRUE for debug, FALSE for release
    srv,                 \* position of Server::run
    cur,                 \* the connection conn_handler runs for, or 0
    cached_sites,        \* shared_state.cached_sites
    cur_connected_hosts, \* shared_state.cur_connected_hosts
    fs,                  \* the files of the resource directory
    fs_changes,          \* number of changes made to fs
    backlog,             \* connections the listener has not accepted yet
    client,              \* what each client has done
    sock_in,             \* the bytes each client has sent
    hpc,                 \* position of each connection's handler
    vec_buf,             \* conn_handler's locals, None until assigned
    read_body_result,
    request_type,
    resource_path,
    response,
    written,             \* the responses written to each connection
    fetch_log,           \* the calls of fetch_resource, in order
    call,                \* a function called on its own: its name and arguments
    ret                  \* and what the call returned

vars ==
    <<overflow_checks, srv, cur, cached_sites, cur_connected_hosts, fs, fs_changes,
      backlog, client, sock_in, hpc, vec_buf, read_body_result, request_type,
      resource_path, response, written, fetch_log, call, ret>>

shared == <<cached_sites, cur_connected_hosts>>
env == <<fs, fs_changes, backlog, client, sock_in>>
locals == <<vec_buf, read_body_result, request_type, resource_path, response>>
logs == <<written, fetch_log>>
unit == <<call, ret>>

\* Server::new: the shared state after construction.
ServerNew ==
    [cur_connected_hosts |-> 0,
     cached_sites |-> [k \in {SITE_NOT_FOUND} |-> HELLO_WORLD]]

Init ==
    /\ overflow_checks \in BOOLEAN
    /\ srv = "bind"
    /\ cur = 0
    /\ cached_sites = ServerNew.cached_sites
    /\ cur_connected_hosts = ServerNew.cur_connected_hosts
    /\ fs \in [Paths -> Files]
    /\ fs_changes = 0
    /\ backlog = <<>>
    /\ client = [c \in Conns |-> "idle"]
    /\ sock_in = [c \in Conns |-> <<>>]
    /\ hpc = [c \in Conns |-> "NotAccepted"]
    /\ vec_buf = [c \in Conns |-> None]
    /\ read_body_result = [c \in Conns |-> None]
    /\ request_type = [c \in Conns |-> None]
    /\ resource_path = [c \in Conns |-> None]
    /\ response = [c \in Conns |-> None]
    /\ written = [c \in Conns |-> <<>>]
    /\ fetch_log = <<>>
    /\ call = None
    /\ ret = None

\* The server's task is suspended at an await: accept, readable or
\* write_all.  Between two awaits it runs without yielding and looks at no
\* socket but its own buffer: what the clients do in between is seen as if
\* done at the await before, and the clients' steps are taken there.
Suspended ==
    \/ srv = "accept"
    \/ srv = "handling" /\ hpc[cur] \in {"AwaitingReadable", "Writing"}

(* ------------------------------------------------------------------ *)
(* Environment actions.                                                *)
(* ------------------------------------------------------------------ *)

\* A client connects; the kernel queues the connection for accept.
Connect(c) ==
    /\ Suspended
    /\ client[c] = "idle"
    /\ \A d \in Conns : d < c => client[d] # "idle"
    /\ client' = [client EXCEPT ![c] = "connected"]
    /\ backlog' = Append(backlog, c)
    /\ UNCHANGED <<overflow_checks, unit, srv, cur, shared, fs, fs_changes, sock_in, hpc,
                   locals, logs>>

\* A connected client sends a request.
ClientSend(c, req) ==
    /\ Suspended
    /\ client[c] = "connected"
    /\ client' = [client EXCEPT ![c] = "sent"]
    /\ sock_in' = [sock_in EXCEPT ![c] = req]
    /\ UNCHANGED <<overflow_checks, unit, srv, cur, shared, fs, fs_changes, backlog, hpc,
                   locals, logs>>

\* A connected client closes its end without sending a byte.
ClientClose(c) ==
    /\ Suspended
    /\ client[c] = "connected"
    /\ client' = [client EXCEPT ![c] = "closed"]
    /\ UNCHANGED <<overflow_checks, unit, srv, cur, shared, fs, fs_changes, backlog, sock_in,
                   hpc, locals, logs>>

\* A file of the resource directory is created, removed or rewritten.  Only
\* fetch_resource looks at the files, and it does so within one step of its
\* handler: a change made while a handler runs is seen exactly as one made
\* before the handler was accepted or after it returned, and the changes are
\* taken there.
FsChange(path, file) ==
    /\ srv = "accept"
    /\ fs_changes < MaxFsChanges
    /\ fs[path] # file
    /\ fs' = [fs EXCEPT ![path] = file]
    /\ fs_changes' = fs_changes + 1
    /\ UNCHANGED <<overflow_checks, unit, srv, cur, shared, backlog, client, sock_in, hpc,
                   locals, logs>>

(* ------------------------------------------------------------------ *)
(* Server::run                                                         *)
(* ------------------------------------------------------------------ *)

\* TcpListener::bind(..).await.unwrap() succeeds.
Bind ==
    /\ srv = "bind"
    /\ srv' = "accept"
    /\ UNCHANGED <<overflow_checks, unit, cur, shared, env, hpc, locals, logs>>

\* TcpListener::bind fails and unwrap panics before the server serves.
BindFail ==
    /\ srv = "bind"
    /\ srv' = "startup_failed"
    /\ UNCHANGED <<overflow_checks, unit, cur, shared, env, hpc, locals, logs>>

\* listener.accept().await returns a connection, and run calls
\* self.conn_handler(..).await on it: the loop does not come back to accept
\* before the handler has returned.
Accept ==
    /\ srv = "accept"
    /\ backlog # <<>>
    /\ srv' = "handling"
    /\ cur' = Head(backlog)
    /\ backlog' = Tail(backlog)
    /\ hpc' = [hpc EXCEPT ![Head(backlog)] = "AwaitingReadable"]
    /\ UNCHANGED <<overflow_checks, unit, shared, fs, fs_changes, client, sock_in, locals, logs>>

\* listener.accept() completes with an error for the pending connection
\* (it was aborted, no descriptor is left), and unwrap panics.
AcceptFail ==
    /\ srv = "accept"
    /\ backlog # <<>>
    /\ srv' = "accept_failed"
    /\ UNCHANGED <<overflow_checks, unit, cur, shared, env, hpc, locals, logs>>

(* ------------------------------------------------------------------ *)
(* Server::conn_handler, for the connection cur.                       *)
(* ------------------------------------------------------------------ *)

Handling(c, at) == srv = "handling" /\ cur = c /\ hpc[c] = at

\* The positions at which a handler has finished: it returned, or panicked.
Terminal ==
    {"ReadFailed", "InvalidMethod", "EmptyResource", "ResponseSent", "WriteFailed",
     "Panicked"}

\* The handler returns; run's loop goes back to accept.
Return(c, at) ==
    /\ hpc' = [hpc EXCEPT ![c] = at]
    /\ srv' = "accept"
    /\ cur' = 0

\* The handler panics, and the panic unwinds through run.
Unwind(c) ==
    /\ hpc' = [hpc EXCEPT ![c] = "Panicked"]
    /\ srv' = "panicked"
    /\ cur' = cur

\* inc_stream.readable().await completes: bytes have arrived or the peer
\* has closed.  No timeout bounds the wait.
Readable(c) ==
    /\ Handling(c, "AwaitingReadable")
    /\ client[c] \in {"sent", "closed"}
    /\ hpc' = [hpc EXCEPT ![c] = "Readable"]
    /\ UNCHANGED <<overflow_checks, unit, srv, cur, shared, env, locals, logs>>

\* read_tcpstream returns Ok: the bytes sent, none at end of stream.
ReadOk(c) ==
    /\ Handling(c, "Readable")
    /\ vec_buf' = [vec_buf EXCEPT ![c] = Some(read_tcpstream(sock_in[c]))]
    /\ hpc' = [hpc EXCEPT ![c] = "BufferCaptured"]
    /\ UNCHANGED <<overflow_checks, unit, srv, cur, shared, env, read_body_result,
                   request_type, resource_path, response, logs>>

\* read_tcpstream returns Err: logged, the handler returns.
ReadErr(c) ==
    /\ Handling(c, "Readable")
    /\ Return(c, "ReadFailed")
    /\ UNCHANGED <<overflow_checks, unit, shared, env, locals, logs>>

\* let read_body_result = self.read_request_body(&vec_buf)
ExtractBody(c) ==
    /\ Handling(c, "BufferCaptured")
    /\ \E body \in {read_request_body_of(Unwrap(vec_buf[c]), overflow_checks)} :
         IF body.panic
         THEN Unwind(c) /\ UNCHANGED read_body_result
         ELSE /\ read_body_result' = [read_body_result EXCEPT ![c] = Some(body.value)]
              /\ hpc' = [hpc EXCEPT ![c] = IF body.value = <<>> THEN "Handshake"
                                           ELSE "BodyExtracted"]
              /\ UNCHANGED <<srv, cur>>
    /\ UNCHANGED <<overflow_checks, unit, shared, env, vec_buf, request_type, resource_path,
                   response, logs>>

\* The connections that are open: connected, and their handler not finished.
Open == {d \in Conns : client[d] # "idle" /\ hpc[d] \notin Terminal}

\* self.fetch_resource(key) followed by format_message, for the connection c.
\* fetch_log records the call: its caller and key, what the cache and the
\* directory held for the key when it was made, the connections open then,
\* and what it returned.
FetchAndFormat(c, key) ==
    \E got \in {fetch_resource(cached_sites, fs, key)} :
        /\ cached_sites' = got.cached_sites
        /\ fetch_log' = Append(fetch_log,
                               [conn |-> c, key |-> key, open |-> Open,
                                cached |-> key \in DOMAIN cached_sites,
                                file |-> FileAt(fs, PathOf(key)),
                                panic |-> got.panic, content |-> got.content,
                                read |-> IsSome(got.read)])
        /\ IF got.panic
           THEN Unwind(c) /\ UNCHANGED response
           ELSE /\ response' = [response EXCEPT ![c] = Some(format_message(got.content))]
                /\ hpc' = [hpc EXCEPT ![c] = "Writing"]
                /\ UNCHANGED <<srv, cur>>

\* An empty body that is handed on to the classification of the method.
HandshakeFetch_on(c) ==
    /\ Handling(c, "Handshake")
    /\ hpc' = [hpc EXCEPT ![c] = "BodyExtracted"]
    /\ UNCHANGED <<overflow_checks, unit, srv, cur, shared, env, locals, logs>>

\* The branch for an empty body: fetch with the (empty) body as the key.
HandshakeFetch(c) ==
    /\ Handling(c, "Handshake")
    /\ FetchAndFormat(c, Unwrap(read_body_result[c]))
    /\ UNCHANGED <<overflow_checks, unit, cur_connected_hosts, env, vec_buf, read_body_result,
                   request_type, resource_path, written>>

\* A classification that goes on to the resource whatever the method.
Classify_on(c) ==
    /\ Handling(c, "BodyExtracted")
    /\ \E type \in {read_request_type(Unwrap(vec_buf[c]))} :
         IF type.panic
         THEN Unwind(c) /\ UNCHANGED request_type
         ELSE /\ request_type' = [request_type EXCEPT ![c] = Some(type.value)]
              /\ hpc' = [hpc EXCEPT ![c] = "MethodClassified"]
              /\ UNCHANGED <<srv, cur>>
    /\ UNCHANGED <<overflow_checks, unit, shared, env, vec_buf, read_body_result, resource_path,
                   response, logs>>

\* let request_type = self.read_request_type(&vec_buf); Invalid returns.
Classify(c) ==
    /\ Handling(c, "BodyExtracted")
    /\ \E type \in {read_request_type(Unwrap(vec_buf[c]))} :
         IF type.panic
         THEN Unwind(c) /\ UNCHANGED request_type
         ELSE /\ request_type' = [request_type EXCEPT ![c] = Some(type.value)]
              /\ IF type.value = "Invalid"
                 THEN Return(c, "InvalidMethod")
                 ELSE hpc' = [hpc EXCEPT ![c] = "MethodClassified"] /\ UNCHANGED <<srv, cur>>
    /\ UNCHANGED <<overflow_checks, unit, shared, env, vec_buf, read_body_result, resource_path,
                   response, logs>>

\* let resource_path = self.read_resource(&vec_buf, &request_type); empty returns.
ExtractResource(c) ==
    /\ Handling(c, "MethodClassified")
    /\ \E path \in {read_resource(Unwrap(vec_buf[c]), Unwrap(request_type[c]),
                                   overflow_checks)} :
         IF path.panic
         THEN Unwind(c) /\ UNCHANGED resource_path
         ELSE /\ resource_path' = [resource_path EXCEPT ![c] = Some(path.value)]
              /\ IF path.value = <<>>
                 THEN Return(c, "EmptyResource")
                 ELSE hpc' = [hpc EXCEPT ![c] = "ResourceExtracted"] /\ UNCHANGED <<srv, cur>>
    /\ UNCHANGED <<overflow_checks, unit, shared, env, vec_buf, read_body_result, request_type,
                   response, logs>>

\* let site_content = self.fetch_resource(&resource_path), and the response.
Fetch(c) ==
    /\ Handling(c, "ResourceExtracted")
    /\ FetchAndFormat(c, Unwrap(resource_path[c]))
    /\ UNCHANGED <<overflow_checks, unit, cur_connected_hosts, env, vec_buf, read_body_result,
                   request_type, resource_path, written>>

\* A write after which the handler stays where it was and writes again.
WriteOk_again(c) ==
    /\ Handling(c, "Writing")
    /\ written' = [written EXCEPT ![c] = Append(@, Unwrap(response[c]))]
    /\ UNCHANGED <<overflow_checks, unit, srv, cur, hpc, shared, env, locals, fetch_log>>

\* inc_stream.write_all(&response).await returns Ok; the handler returns.
WriteOk(c) ==
    /\ Handling(c, "Writing")
    /\ written' = [written EXCEPT ![c] = Append(@, Unwrap(response[c]))]
    /\ Return(c, "ResponseSent")
    /\ UNCHANGED <<overflow_checks, unit, shared, env, locals, fetch_log>>

\* write_all returns Err and unwrap panics.
WriteFail(c) ==
    /\ Handling(c, "Writing")
    /\ hpc' = [hpc EXCEPT ![c] = "WriteFailed"]
    /\ srv' = "panicked"
    /\ UNCHANGED <<overflow_checks, unit, cur, shared, env, locals, logs>>

(* ------------------------------------------------------------------ *)
(* The specification.                                                  *)
(* ------------------------------------------------------------------ *)

HandlerStep ==
    \E c \in Conns :
        \/ Readable(c)
        \/ ReadOk(c)
        \/ ReadErr(c)
        \/ ExtractBody(c)
        \/ HandshakeFetch(c)
        \/ Classify(c)
        \/ ExtractResource(c)
        \/ Fetch(c)
        \/ WriteOk(c)
        \/ WriteFail(c)

ServerStep == Bind \/ BindFail \/ Accept \/ AcceptFail \/ HandlerStep

EnvStep ==
    \/ \E c \in Conns : Connect(c)
    \/ \E c \in Conns, req \in Requests : ClientSend(c, req)
    \/ \E c \in Conns : ClientClose(c)
    \/ \E path \in Paths, file \in Files : FsChange(path, file)

Next == ServerStep \/ EnvStep

Spec == Init /\ [][Next]_vars

\* The runtime runs the server's task whenever it can make a step; nothing
\* obliges a client to send or the files to change.
FairSpec == Spec /\ WF_vars(ServerStep)

(* ------------------------------------------------------------------ *)
(* The functions of readers.rs and server.rs called on their own, each *)
(* once, on arguments drawn from bounded sets.                         *)
(* ------------------------------------------------------------------ *)

\* The server's variables, which a call on its own leaves alone.
server == <<overflow_checks, srv, cur, shared, env, hpc, locals, logs>>

\* The sequences over S of length at most n.
SeqsUpTo(S, n) == UNION {[1..k -> S] : k \in 0..n}

\* The bytes "A", "B" and "`" of the buffers and patterns searched.
SEARCH_BYTES == {65, 66, 96}

SearchBuffers == SeqsUpTo(SEARCH_BYTES, MaxBufferLen)

\* A pattern of 16 bytes whose hash, 11119175657, times powers[6] =
\* 887503681 is more than i64::MAX.
LONG_PATTERN ==
    <<255, 255, 255, 255, 255, 244, 249, 158, 101, 82, 211, 253, 243, 179, 103, 197>>

\* The searches, <<buffer, pattern>>, for a pattern of 16 bytes: the long
\* pattern in itself and after 1 to 6 bytes "x", and the Content-Length
\* field in the requests.
LongSearches ==
    {<<[i \in 1..n |-> 120] \o LONG_PATTERN, LONG_PATTERN>> : n \in 0..6}
    \cup {<<request, CONTENT_LENGTH_FIELD>> : request \in Requests}
SearchPatterns == SeqsUpTo(SEARCH_BYTES, MaxPatternLen) \ {<<>>}

\* The bytes "1", "9", "a", "-" and CR of the buffers extract_number is
\* called on.
NUMBER_BYTES == {49, 57, 97, 45, CR}

\* "9223372036854775807" (i64::MAX), "9223372036854775808" and
\* "18446744073709551617" (2^64 + 1)
DIGITS_I64_MAX ==
    <<57, 50, 50, 51, 51, 55, 50, 48, 51, 54, 56, 53, 52, 55, 55, 53, 56, 48, 55>>
DIGITS_I64_MAX_PLUS_1 ==
    <<57, 50, 50, 51, 51, 55, 50, 48, 51, 54, 56, 53, 52, 55, 55, 53, 56, 48, 56>>
DIGITS_TWO64_PLUS_1 ==
    <<49, 56, 52, 52, 54, 55, 52, 52, 48, 55, 51, 55, 48, 57, 53, 53, 49, 54, 49, 55>>

NumberBuffers ==
    SeqsUpTo(NUMBER_BYTES, MaxNumberLen)
    \cup {digits \o <<CR, NEWLINE>> :
             digits \in {DIGITS_I64_MAX, DIGITS_I64_MAX_PLUS_1, DIGITS_TWO64_PLUS_1}}

\* "POST /b HTTP/1.1\r\n"
REQUEST_LINE == <<80, 79, 83, 84, 32, 47, 98, 32, 72, 84, 84, 80, 47, 49, 46, 49, 13, 10>>

\* The declared lengths "0", "1", "2", "99", "8192", "8193", "9000" and
\* 2^64 + 1, and the bodies "", "x" and "hi" that follow them.
DeclaredLengths ==
    {<<48>>, <<49>>, <<50>>, <<57, 57>>, <<56, 49, 57, 50>>, <<56, 49, 57, 51>>,
     <<57, 48, 48, 48>>, DIGITS_TWO64_PLUS_1}

SentBodies == {<<>>, <<120>>, <<104, 105>>}

BodyBuffers ==
    Buffers
    \cup {REQUEST_LINE \o CONTENT_LENGTH_FIELD \o declared \o <<CR, NEWLINE, CR, NEWLINE>>
               \o body :
             declared \in DeclaredLengths, body \in SentBodies}

\* The first bytes of the requests.
PrefixBuffers ==
    {SubSeq(request, 1, Min2(k, Len(request))) : request \in Requests, k \in 0..MaxPrefixLen}

RequestTypes == {"Get", "Post", "Invalid"}

\* The bytes "x", CR and "1" of the bodies format_message is called on.
BODY_BYTES == {120, CR, 49}

FormatBodies ==
    {[i \in 1..n |-> b] : n \in 0..MaxBodyLen, b \in BODY_BYTES}
    \cup {CONTENT_LENGTH_FIELD \o <<55, CR, NEWLINE>>, HELLO_WORLD}

\* "/../x", a key with a parent-directory segment: resource_html_dir + key
\* names a file outside the directory.
KEY_UP == <<47, 46, 46, 47, 120>>

\* The keys fetch_resource is called with, and the directories it looks in.
FetchKeys == {<<>>, KEY_A, KEY_UP}
FetchDirs == [{PathOf(KEY_A), PathOf(KEY_UP)} -> Files]

UnitInit ==
    /\ Init
    /\ fs = [path \in Paths |-> [kind |-> "missing", content |-> <<>>]]

\* find_in_buffer(&buffer, pattern)
CallFindInBuffer(buffer, pattern) ==
    /\ call = None
    /\ call' = [fn |-> "find_in_buffer", buffer |-> buffer, pattern |-> pattern]
    /\ ret' = find_in_buffer(buffer, pattern, overflow_checks)
    /\ UNCHANGED server

\* extract_number(&buffer)
CallExtractNumber(buffer) ==
    /\ call = None
    /\ call' = [fn |-> "extract_number", buffer |-> buffer]
    /\ ret' = extract_number(buffer, overflow_checks)
    /\ UNCHANGED server

\* self.read_request_body(&buffer)
CallReadRequestBody(buffer) ==
    /\ call = None
    /\ call' = [fn |-> "read_request_body", buffer |-> buffer]
    /\ ret' = read_request_body(buffer, overflow_checks)
    /\ UNCHANGED server

\* self.read_request_type(&buffer)
CallReadRequestType(buffer) ==
    /\ call = None
    /\ call' = [fn |-> "read_request_type", buffer |-> buffer]
    /\ ret' = read_request_type(buffer)
    /\ UNCHANGED server

\* self.read_resource(&buffer, &req_type)
CallReadResource(buffer, req_type) ==
    /\ call = None
    /\ call' = [fn |-> "read_resource", buffer |-> buffer, req_type |-> req_type]
    /\ ret' = read_resource(buffer, req_type, overflow_checks)
    /\ UNCHANGED server

\* format_message(site_content)
CallFormatMessage(site_content) ==
    /\ call = None
    /\ call' = [fn |-> "format_message", site_content |-> site_content]
    /\ ret' = Ok(format_message(site_content))
    /\ UNCHANGED server

\* self.fetch_resource(&resource_path) on the cache of Server::new
CallFetchResource(dir, key) ==
    /\ call = None
    /\ call' = [fn |-> "fetch_resource", cached |-> ServerNew.cached_sites,
                dir |-> dir, key |-> key]
    /\ ret' = fetch_resource(ServerNew.cached_sites, dir, key)
    /\ UNCHANGED server

UnitNext ==
    \/ \E buffer \in SearchBuffers, pattern \in SearchPatterns :
           CallFindInBuffer(buffer, pattern)
    \/ \E search \in LongSearches : CallFindInBuffer(search[1], search[2])
    \/ \E buffer \in NumberBuffers : CallExtractNumber(buffer)
    \/ \E buffer \in BodyBuffers : CallReadRequestBody(buffer)
    \/ \E buffer \in PrefixBuffers : CallReadRequestType(buffer)
    \/ \E buffer \in PrefixBuffers \cup Requests, req_type \in RequestTypes :
           CallReadResource(buffer, req_type)
    \/ \E site_content \in FormatBodies : CallFormatMessage(site_content)
    \/ \E dir \in FetchDirs, key \in FetchKeys : CallFetchResource(dir, key)

UnitSpec == UnitInit /\ [][UnitNext]_vars

(* ------------------------------------------------------------------ *)
(* The properties.                                                     *)
(* ------------------------------------------------------------------ *)

\* The fetches made for the connection c, in order.
FetchesOf(c) == SelectSeq(fetch_log, LAMBDA e : e.conn = c)

\* The handlers in flight: accepted and not finished.
InFlight == {c \in Conns : hpc[c] \notin Terminal \cup {"NotAccepted"}}

\* C1: when a key that is not cached and whose file exists and holds bytes
\* is fetched, and fetched again for whatever connection, the file is read
\* by the first fetch and by no later one, the cache holds one entry for the
\* key, and every later fetch returns the content the first one returned.
C1_SingleLoad ==
    \A i, j \in DOMAIN fetch_log :
        LET first == fetch_log[i]
            later == fetch_log[j]
        IN  (/\ i < j
             /\ later.key = first.key
             /\ first.key # <<>>
             /\ ~first.cached
             /\ first.file.kind = "file"
             /\ first.file.content # <<>>)
            => /\ ~first.panic /\ first.read
               /\ ~later.panic /\ ~later.read
               /\ later.content = first.content
               /\ first.key \in DOMAIN cached_sites
               /\ cached_sites[first.key] = first.content

\* Two connections open at the same time have fetched the same key, which
\* was not cached and whose file held bytes at the first fetch.
C1_Witness ==
    \E i, j \in DOMAIN fetch_log :
        /\ i < j
        /\ fetch_log[i].conn # fetch_log[j].conn
        /\ fetch_log[j].conn \in fetch_log[i].open
        /\ fetch_log[i].key = KEY_A
        /\ fetch_log[j].key = KEY_A
        /\ ~fetch_log[i].cached
        /\ fetch_log[i].file.content # <<>>
        /\ fetch_log[j].content = fetch_log[i].content

\* C2: while the handler of a connection is suspended (waiting for the
\* socket to become readable, reading, or writing) and a later connection is
\* pending, the acceptor can accept the later connection.
C2_AcceptWhileSuspended ==
    \A c \in Conns :
        (/\ hpc[c] \in {"AwaitingReadable", "Readable", "Writing"}
         /\ backlog # <<>>)
        => ENABLED Accept

\* C3: after a read failure, a write failure or a malformed request on a
\* connection the server has not panicked: its accept loop keeps running.
C3_FailureContained ==
    \A c \in Conns :
        hpc[c] \in {"ReadFailed", "WriteFailed", "Panicked"} => srv # "panicked"

\* C4: a key that was loaded stays in the cache with the content of its
\* load, and a fetch of it reads no file and returns that content, whatever
\* the file holds by then.
C4_NeverReread ==
    [][\A k \in DOMAIN cached_sites \ {SITE_NOT_FOUND} :
          /\ k \in DOMAIN cached_sites'
          /\ cached_sites'[k] = cached_sites[k]
          /\ (/\ Len(fetch_log') > Len(fetch_log)
              /\ fetch_log'[Len(fetch_log')].key = k)
             => /\ ~fetch_log'[Len(fetch_log')].read
                /\ fetch_log'[Len(fetch_log')].content = cached_sites[k]]_vars

\* A cached key was fetched when its file no longer held the cached content.
C4_Witness ==
    \E j \in DOMAIN fetch_log :
        /\ fetch_log[j].key = KEY_A
        /\ fetch_log[j].cached
        /\ fetch_log[j].file.content # fetch_log[j].content
        /\ ~fetch_log[j].read

C6_SentinelKept ==
    /\ SITE_NOT_FOUND \in DOMAIN cached_sites
    /\ cached_sites[SITE_NOT_FOUND] = HELLO_WORLD

\* Every connection has been handled, and a load has added a key to the
\* cache.
C6_Witness ==
    /\ \A c \in Conns : hpc[c] \in Terminal
    /\ Len(fetch_log) = MaxConn
    /\ KEY_A \in DOMAIN cached_sites

\* C7: the counter of connected hosts equals the number of handlers in
\* flight.
C7_CounterTracksHandlers == cur_connected_hosts = Cardinality(InFlight)

\* C8: a handler that waits for its socket to become readable finishes.
C8_WaitBounded ==
    \A c \in Conns : (hpc[c] = "AwaitingReadable") ~> (hpc[c] \in Terminal)

\* C9: a handler whose body is not empty and whose method is Invalid, or
\* whose resource path is empty, has returned, has written no byte and has
\* made no fetch.
C9_ClosedSilently ==
    \A c \in Conns :
        (\/ /\ IsSome(read_body_result[c]) /\ Unwrap(read_body_result[c]) # <<>>
            /\ request_type[c] = Some("Invalid")
         \/ resource_path[c] = Some(<<>>))
        => /\ hpc[c] \in {"InvalidMethod", "EmptyResource"}
           /\ response[c] = None
           /\ written[c] = <<>>
           /\ FetchesOf(c) = <<>>

\* One handler has returned for an Invalid method, another for an empty
\* resource path.
C9_Witness ==
    \E c, d \in Conns :
        /\ hpc[c] = "InvalidMethod" /\ request_type[c] = Some("Invalid")
        /\ hpc[d] = "EmptyResource" /\ resource_path[d] = Some(<<>>)

\* C10: a handler whose extracted body is empty classifies no method and
\* extracts no resource path; it makes one fetch, with the empty key, writes
\* at most one response, whose body is the sentinel content, and goes on
\* until the response is written and the handler has returned (or the write
\* has failed).
C10_Handshake ==
    /\ [](\A c \in Conns :
             read_body_result[c] = Some(<<>>)
             => /\ request_type[c] = None
                /\ resource_path[c] = None
                /\ Len(FetchesOf(c)) <= 1
                /\ \A i \in DOMAIN FetchesOf(c) : FetchesOf(c)[i].key = <<>>
                /\ hpc[c] \in {"Handshake", "Writing", "ResponseSent", "WriteFailed"}
                /\ (hpc[c] # "Handshake" => Len(FetchesOf(c)) = 1)
                /\ written[c] = IF hpc[c] = "ResponseSent"
                                THEN <<format_message(cached_sites[SITE_NOT_FOUND])>>
                                ELSE <<>>)
    /\ \A c \in Conns :
           (read_body_result[c] = Some(<<>>)) ~> (hpc[c] \in {"ResponseSent", "WriteFailed"})

\* A request without a Content-Length field has been answered.
C10_Witness ==
    \E c \in Conns :
        /\ sock_in[c] = REQ_PLAIN_GET
        /\ read_body_result[c] = Some(<<>>)
        /\ hpc[c] = "ResponseSent"
        /\ written[c] = <<format_message(HELLO_WORLD)>>

\* C11: a response written for a fetch that returned the sentinel content
\* starts with the status line "HTTP/1.1 404 Not Found".
C11_SentinelIs404 ==
    LET status_404 == <<72, 84, 84, 80, 47, 49, 46, 49, 32, 52, 48, 52, 32,
                        78, 111, 116, 32, 70, 111, 117, 110, 100>>
    IN  \A c \in Conns :
            (/\ written[c] # <<>>
             /\ FetchesOf(c) # <<>>
             /\ FetchesOf(c)[1].content = cached_sites[SITE_NOT_FOUND])
            => SubSeq(written[c][1], 1, Len(status_404)) = status_404

\* Whether the call recorded is one of fn.
Called(fn) == call # None /\ call.fn = fn

\* Whether pattern stands in buffer at the 0-based index k.
OccursAt(buffer, pattern, k) ==
    /\ k + Len(pattern) <= Len(buffer)
    /\ SubSeq(buffer, k + 1, k + Len(pattern)) = pattern

Occurrences(buffer, pattern) ==
    {k \in 0..Len(buffer) : OccursAt(buffer, pattern, k)}

\* C12: for a buffer in which the non-empty pattern occurs, find_in_buffer
\* returns the lowest index at which it occurs.
C12_LowestIndex ==
    (/\ Called("find_in_buffer")
     /\ Occurrences(call.buffer, call.pattern) # {})
    => ret = Ok(MinOf(Occurrences(call.buffer, call.pattern)))

\* C13: for a buffer in which the non-empty pattern does not occur, a
\* pattern longer than the buffer included, find_in_buffer returns
\* usize::MAX and does not panic.
C13_NoFalseMatch ==
    (/\ Called("find_in_buffer")
     /\ Occurrences(call.buffer, call.pattern) = {})
    => ret = Ok(USIZE_MAX)

IsDigit(byte) == 48 <= byte /\ byte <= 57

\* The base-10 value, as limbs, of a run of digit bytes, the most
\* significant first.
DecimalValue(digits) ==
    DigitLimbs([i \in 1..Len(digits) |-> digits[Len(digits) + 1 - i] - 48])

\* The bytes that follow the first occurrence of the Content-Length field.
AfterField(buffer) ==
    SliceFrom(buffer, MinOf(Occurrences(buffer, CONTENT_LENGTH_FIELD))
                      + Len(CONTENT_LENGTH_FIELD))

\* C14: for a buffer in which the Content-Length field occurs and whose
\* number extract_number gives as L, 0 <= L <= 8192, read_request_body
\* returns a body of length L, the last L bytes of the buffer, also for a
\* buffer shorter than L bytes.
C14_TrailingSlice ==
    (/\ Called("read_request_body")
     /\ Occurrences(call.buffer, CONTENT_LENGTH_FIELD) # {}
     /\ LET number == extract_number(AfterField(call.buffer), overflow_checks)
        IN  /\ ~number.panic
            /\ ~number.value.neg
            /\ ~BigGreater(number.value.mag, ToLimbs(MAX_BODY_LENGTH)))
    => LET L == LimbsToInt(extract_number(AfterField(call.buffer),
                                          overflow_checks).value.mag)
       IN  /\ ~ret.panic
           /\ Len(ret.value) = L
           /\ L <= Len(call.buffer)
              => ret.value = SliceFrom(call.buffer, Len(call.buffer) - L)

\* C15: for a buffer whose declared Content-Length, the run of digits that
\* follows the field up to the end of the line, is greater than 8192,
\* read_request_body returns the empty body.
C15_OversizedEmpty ==
    (/\ Called("read_request_body")
     /\ Occurrences(call.buffer, CONTENT_LENGTH_FIELD) # {}
     /\ LET declared == num_bytes(AfterField(call.buffer))
        IN  /\ declared # <<>>
            /\ \A i \in 1..Len(declared) : IsDigit(declared[i])
            /\ BigGreater(DecimalValue(declared), ToLimbs(MAX_BODY_LENGTH)))
    => ret = Ok(<<>>)

\* C16: extract_number returns the base-10 value of the digit bytes that
\* stand before the first CR or LF of the buffer, a non-negative number,
\* and 0 when no digit stands there.
C16_DecimalOfDigits ==
    Called("extract_number")
    => ret = Ok(I64(FALSE, DecimalValue(SelectSeq(num_bytes(call.buffer), IsDigit))))

\* C17: read_request_type returns Get for a buffer that starts with "GET",
\* Post for one that starts with "POST" and Invalid for every other buffer,
\* one shorter than 4 bytes included, and does not panic.
C17_TypeTotal ==
    Called("read_request_type")
    => ret = Ok(IF Len(call.buffer) >= 3 /\ SubSeq(call.buffer, 1, 3) = GET_REQUEST
                THEN "Get"
                ELSE IF Len(call.buffer) >= 4 /\ SubSeq(call.buffer, 1, 4) = POST_REQUEST
                THEN "Post"
                ELSE "Invalid")

\* C18: read_resource for Get or Post returns the bytes that follow the
\* method token and one space, up to the next space, and returns the empty
\* sequence when no later space exists and when the method is Invalid; it
\* does not panic.
C18_ResourceOrEmpty ==
    Called("read_resource")
    => LET skip == IF call.req_type = "Get" THEN 4 ELSE 5
           later_spaces == {i \in (skip + 1)..Len(call.buffer) : call.buffer[i] = SPACE}
       IN  ret = Ok(IF call.req_type = "Invalid" \/ later_spaces = {} THEN <<>>
                    ELSE SubSeq(call.buffer, skip + 1, MinOf(later_spaces) - 1))

\* C19: in the response format_message builds for a body, find_in_buffer
\* finds the Content-Length field, extract_number on the bytes after it
\* gives the length of the body, and the response ends with the body.
C19_LengthRoundTrip ==
    Called("format_message")
    => LET response_bytes == ret.value
           site_content   == call.site_content
           found == find_in_buffer(response_bytes, CONTENT_LENGTH_FIELD, overflow_checks)
       IN  /\ ~found.panic
           /\ found.value # USIZE_MAX
           /\ extract_number(SliceFrom(response_bytes,
                                       found.value + Len(CONTENT_LENGTH_FIELD)),
                             overflow_checks)
              = Ok(I64(FALSE, ToLimbs(Len(site_content))))
           /\ Len(response_bytes) >= Len(site_content)
           /\ SliceFrom(response_bytes, Len(response_bytes) - Len(site_content))
              = site_content

\* A body of ten bytes or more, whose length takes two digits, was formatted.
C19_Witness ==
    /\ Called("format_message")
    /\ Len(call.site_content) >= 10
    /\ ~ret.panic
    /\ Len(ret.value) > Len(call.site_content)

\* A logged fetch that missed: of the empty key, or of a key that was not
\* cached and whose file was missing or held no bytes.
Missed(e) ==
    /\ ~e.panic
    /\ \/ e.key = <<>>
       \/ /\ ~e.cached
          /\ e.file.kind = "missing" \/ e.file.content = <<>>

\* C20: a fetch that misses leaves the cache as it was, and the next fetch
\* of a key that missed, once its file holds bytes, finds the key not
\* cached, reads the file and returns its content.
C20_MissNotCached ==
    [][Len(fetch_log') > Len(fetch_log)
       => LET j == Len(fetch_log')
              later == fetch_log'[j]
          IN  /\ Missed(later) => cached_sites' = cached_sites
              /\ \A i \in 1..(j - 1) :
                     (/\ Missed(fetch_log'[i])
                      /\ fetch_log'[i].key = later.key
                      /\ later.key # <<>>
                      /\ \A k \in (i + 1)..(j - 1) : fetch_log'[k].key # later.key
                      /\ later.file.kind = "file"
                      /\ later.file.content # <<>>)
                     => /\ ~later.cached
                        /\ ~later.panic
                        /\ later.read
                        /\ later.content = later.file.content]_vars

\* A key was fetched while its file was missing or empty, and fetched again
\* after the file came to hold bytes: the second fetch returned them.
C20_Witness ==
    \E i, j \in DOMAIN fetch_log :
        /\ i < j
        /\ fetch_log[i].key = KEY_A
        /\ fetch_log[j].key = KEY_A
        /\ Missed(fetch_log[i])
        /\ fetch_log[j].file.content # <<>>
        /\ fetch_log[j].read
        /\ fetch_log[j].content = fetch_log[j].file.content

\* Whether a segment of the key, between "/" bytes, is "..".
HasParentSegment(key) ==
    \E i \in 1..(Len(key) - 1) :
        /\ key[i] = 46 /\ key[i + 1] = 46
        /\ i = 1 \/ key[i - 1] = 47
        /\ i + 1 = Len(key) \/ key[i + 2] = 47

\* C21: a fetch of a key that has a parent-directory segment returns the
\* sentinel content, reads no file and leaves the cache as it was.
C21_TraversalRejected ==
    (/\ Called("fetch_resource")
     /\ HasParentSegment(call.key))
    => ret = FetchResult(call.cached, call.cached[SITE_NOT_FOUND], None)

\* Whether a request carries no Content-Length field, or one whose digits
\* give 0 or more than 8192.
NoBodyDeclared(buffer) ==
    \/ Occurrences(buffer, CONTENT_LENGTH_FIELD) = {}
    \/ LET declared == num_bytes(AfterField(buffer))
       IN  /\ declared # <<>>
           /\ \A i \in 1..Len(declared) : IsDigit(declared[i])
           /\ \/ DecimalValue(declared) = <<>>
              \/ BigGreater(DecimalValue(declared), ToLimbs(MAX_BODY_LENGTH))

\* C22: the handler of a request without a Content-Length field, or with
\* one of value 0 or above 8192, does not panic, fetches with no key but the
\* empty one, reads no file and inserts nothing in the cache, and the
\* response it writes carries the sentinel content.
C22_KeyNeedsBody ==
    \A c \in Conns :
        (/\ vec_buf[c] # None
         /\ Unwrap(vec_buf[c]) # <<>>
         /\ NoBodyDeclared(Unwrap(vec_buf[c])))
        => /\ hpc[c] # "Panicked"
           /\ \A i \in DOMAIN FetchesOf(c) :
                  /\ FetchesOf(c)[i].key = <<>>
                  /\ ~FetchesOf(c)[i].read
                  /\ FetchesOf(c)[i].content = HELLO_WORLD
           /\ \A i \in DOMAIN written[c] :
                  written[c][i] = format_message(HELLO_WORLD)

\* C23: the handler of a connection writes at most one response and makes
\* at most one fetch, no response is written before the fetch, and once the
\* handler is in a terminal state nothing more is read from, fetched for or
\* written to the connection.
C23_OneFetchOneWrite ==
    [][\A c \in Conns :
          /\ Len(written'[c]) <= 1
          /\ Len(SelectSeq(fetch_log', LAMBDA e : e.conn = c)) <= 1
          /\ written'[c] # <<>> => SelectSeq(fetch_log', LAMBDA e : e.conn = c) # <<>>
          /\ hpc[c] \in Terminal
             => /\ hpc'[c] = hpc[c]
                /\ vec_buf'[c] = vec_buf[c]
                /\ written'[c] = written[c]
                /\ SelectSeq(fetch_log', LAMBDA e : e.conn = c) = FetchesOf(c)]_vars

\* Two handlers have each made their fetch and written their response, the
\* second after the first had finished.
C23_Witness ==
    \E c, d \in Conns :
        /\ c # d
        /\ hpc[c] = "ResponseSent" /\ hpc[d] = "ResponseSent"
        /\ Len(written[c]) = 1 /\ Len(written[d]) = 1
        /\ Len(fetch_log) = 2
        /\ fetch_log[1].conn = c /\ fetch_log[2].conn = d

\* C24: in a search of a buffer of at most 8192 bytes for a pattern of at
\* most 16 bytes, not longer than the buffer, no arithmetic overflows: the
\* call does not panic on an overflow, and the product of the pattern hash
\* with the power of every index the loop visits is within i64.
C24_NoOverflow ==
    (/\ Called("find_in_buffer")
     /\ Len(call.pattern) >= 1
     /\ Len(call.pattern) <= 16
     /\ Len(call.pattern) <= Len(call.buffer)
     /\ Len(call.buffer) <= READ_CAPACITY)
    => /\ ~ret.panic
       /\ LET powers == powers_table(Len(call.buffer))
              hashed_pattern == hash_pattern(call.pattern, powers)
              last == IF ret.value = USIZE_MAX
                      THEN Len(call.buffer) - Len(call.pattern)
                      ELSE ret.value
          IN  /\ ~BigGreater(hashed_pattern, I64_MAX_LIMBS)
              /\ \A idx \in 0..last :
                     ~BigGreater(BigMul(hashed_pattern, ToLimbs(At(powers, idx))),
                                 I64_MAX_LIMBS)

====
